---------------------------- MODULE Spec2Model ----------------------------
(***************************************************************************)
(* Model of the persistence layer of Facturas2 (src/database.py): the      *)
(* SQLite store with the tables tipos_gasto and facturas, the operations   *)
(* of class Database, and the one-shot JSON importer.                      *)
(*                                                                         *)
(* TEXT values that the code inspects (category names, dates, amounts      *)
(* given as text) are sequences of UTF-8 bytes, so that SQLite's BINARY    *)
(* collation, LOWER() and Python's strptime/strftime are modelled by what  *)
(* they do.  TEXT values the code only stores (descriptions, colours) are  *)
(* TLA+ strings.  A nullable column holds NULL (the empty tuple) or a      *)
(* one-element tuple with the value.                                       *)
(***************************************************************************)
EXTENDS Integers, Sequences, FiniteSets

VARIABLES tipos_gasto, facturas, sqlite_sequence, ult,
          legado, self_facturas, llamador, transaccion

vars == <<tipos_gasto, facturas, sqlite_sequence, ult,
          legado, self_facturas, llamador, transaccion>>

\* what the calls of class Database on one connection at a time leave alone:
\* the legacy file, the list of the window, the callers on other connections
fuera == <<legado, self_facturas, llamador, transaccion>>

----------------------------------------------------------------------------
(* Bounds of the model *)

\* AUTOINCREMENT ids handed out to facturas in one run
MaxFacturas == 2

\* entries in one legacy JSON file
MaxEntradasJson == 2

----------------------------------------------------------------------------
(* Text as UTF-8 bytes *)

NULL == <<>>

Some(x) == <<x>>

\* byte-wise comparison of two texts: SQLite's BINARY collation (memcmp,
\* the shorter text first when one is a prefix of the other)
RECURSIVE LexLess(_, _)
LexLess(a, b) ==
    IF b = <<>> THEN FALSE
    ELSE IF a = <<>> THEN TRUE
    ELSE IF Head(a) # Head(b) THEN Head(a) < Head(b)
    ELSE LexLess(Tail(a), Tail(b))

LexLeq(a, b) == a = b \/ LexLess(a, b)

\* SQLite's built-in LOWER(): folds the ASCII letters A-Z only
SqlLower(s) == [i \in 1..Len(s) |-> IF s[i] \in 65..90 THEN s[i] + 32 ELSE s[i]]

IsDigit(b) == b \in 48..57

AllDigits(s) == \A i \in 1..Len(s) : IsDigit(s[i])

\* value of a text of decimal digits
RECURSIVE DigitsVal(_)
DigitsVal(s) ==
    IF s = <<>> THEN 0
    ELSE 10 * DigitsVal(SubSeq(s, 1, Len(s) - 1)) + (s[Len(s)] - 48)

\* n written with exactly w decimal digits (zero padded)
RECURSIVE Pad(_, _)
Pad(n, w) == IF w = 0 THEN <<>> ELSE Append(Pad(n \div 10, w - 1), 48 + (n % 10))

\* the fields of s between occurrences of the byte sep
Split3(s, sep) ==
    LET pos == {i \in 1..Len(s) : s[i] = sep}
    IN  IF Cardinality(pos) # 2 THEN <<>>
        ELSE LET i1 == CHOOSE i \in pos : \A j \in pos : i <= j
                 i2 == CHOOSE i \in pos : \A j \in pos : j <= i
             IN  <<SubSeq(s, 1, i1 - 1), SubSeq(s, i1 + 1, i2 - 1),
                   SubSeq(s, i2 + 1, Len(s))>>

----------------------------------------------------------------------------
(* datetime.strptime / strftime for the two formats the code uses *)

\* the directive %d: 3[0-1] | [1-2]\d | 0[1-9] | [1-9] | " "[1-9]
MatchDia(f) ==
    \/ Len(f) = 2 /\ AllDigits(f) /\ DigitsVal(f) \in 1..31
    \/ Len(f) = 1 /\ f[1] \in 49..57
    \/ Len(f) = 2 /\ f[1] = 32 /\ f[2] \in 49..57

\* the directive %m: 1[0-2] | 0[1-9] | [1-9]
MatchMes(f) ==
    \/ Len(f) = 2 /\ AllDigits(f) /\ DigitsVal(f) \in 1..12
    \/ Len(f) = 1 /\ f[1] \in 49..57

\* the directive %Y: \d\d\d\d
MatchAnio(f) == Len(f) = 4 /\ AllDigits(f)

DiaVal(f) == IF f[1] = 32 THEN f[2] - 48 ELSE DigitsVal(f)

EsBisiesto(y) == (y % 4 = 0 /\ y % 100 # 0) \/ y % 400 = 0

DiasDelMes(y, m) ==
    IF m = 2 THEN (IF EsBisiesto(y) THEN 29 ELSE 28)
    ELSE IF m \in {4, 6, 9, 11} THEN 30 ELSE 31

\* the datetime constructor's range check
FechaEnRango(y, m, d) == y >= 1 /\ m \in 1..12 /\ d \in 1..DiasDelMes(y, m)

NoFecha == [ok |-> FALSE, y |-> 0, m |-> 0, d |-> 0]

\* datetime.strptime(s, '%d/%m/%Y'); ok = FALSE stands for ValueError
Strptime_dmy(s) ==
    LET f == Split3(s, 47)
    IN  IF f = <<>> THEN NoFecha
        ELSE IF ~(MatchDia(f[1]) /\ MatchMes(f[2]) /\ MatchAnio(f[3])) THEN NoFecha
        ELSE LET y == DigitsVal(f[3])
                 m == DigitsVal(f[2])
                 d == DiaVal(f[1])
             IN  IF FechaEnRango(y, m, d) THEN [ok |-> TRUE, y |-> y, m |-> m, d |-> d]
                 ELSE NoFecha

\* datetime.strptime(s, '%Y-%m-%d')
Strptime_ymd(s) ==
    LET f == Split3(s, 45)
    IN  IF f = <<>> THEN NoFecha
        ELSE IF ~(MatchAnio(f[1]) /\ MatchMes(f[2]) /\ MatchDia(f[3])) THEN NoFecha
        ELSE LET y == DigitsVal(f[1])
                 m == DigitsVal(f[2])
                 d == DiaVal(f[3])
             IN  IF FechaEnRango(y, m, d) THEN [ok |-> TRUE, y |-> y, m |-> m, d |-> d]
                 ELSE NoFecha

\* t.strftime('%Y-%m-%d'), for the four-digit years 1000..9999 of the model
Strftime_ymd(t) == Pad(t.y, 4) \o <<45>> \o Pad(t.m, 2) \o <<45>> \o Pad(t.d, 2)

\* t.strftime('%d/%m/%Y')
Strftime_dmy(t) == Pad(t.d, 2) \o <<47>> \o Pad(t.m, 2) \o <<47>> \o Pad(t.y, 4)

----------------------------------------------------------------------------
(* Category names, as UTF-8 bytes *)

\* 'Mercado'
N_Mercado == <<77, 101, 114, 99, 97, 100, 111>>

\* 'Transporte'
N_Transporte == <<84, 114, 97, 110, 115, 112, 111, 114, 116, 101>>

\* 'Entretenimiento'
N_Entretenimiento == <<69, 110, 116, 114, 101, 116, 101, 110, 105, 109, 105, 101, 110, 116, 111>>

\* 'Servicios'
N_Servicios == <<83, 101, 114, 118, 105, 99, 105, 111, 115>>

\* 'Salud'
N_Salud == <<83, 97, 108, 117, 100>>

\* 'Educación'
N_Educacion == <<69, 100, 117, 99, 97, 99, 105, 195, 179, 110>>

\* 'Gastos Básicos'
N_Gastos_Basicos == <<71, 97, 115, 116, 111, 115, 32, 66, 195, 161, 115, 105, 99, 111, 115>>

\* 'Ocio'
N_Ocio == <<79, 99, 105, 111>>

\* 'Reparaciones'
N_Reparaciones == <<82, 101, 112, 97, 114, 97, 99, 105, 111, 110, 101, 115>>

\* 'Préstamo'
N_Prestamo == <<80, 114, 195, 169, 115, 116, 97, 109, 111>>

\* 'Ahorro'
N_Ahorro == <<65, 104, 111, 114, 114, 111>>

\* 'Predial'
N_Predial == <<80, 114, 101, 100, 105, 97, 108>>

\* 'Gastos fijos'
N_Gastos_fijos == <<71, 97, 115, 116, 111, 115, 32, 102, 105, 106, 111, 115>>

\* 'Otros'
N_Otros == <<79, 116, 114, 111, 115>>

\* 'Test'
N_Test == <<84, 101, 115, 116>>

\* 'coches'
N_coches == <<99, 111, 99, 104, 101, 115>>

\* 'Coche'
N_Coche == <<67, 111, 99, 104, 101>>

\* 'coche'
N_coche == <<99, 111, 99, 104, 101>>

\* default_tipos of _insert_default_tipos_gasto: (nombre, descripcion, color)
default_tipos == <<
    <<N_Mercado, "Compras de supermercado", "#FF6B6B">>,
    <<N_Transporte, "Transporte publico/privado", "#4ECDC4">>,
    <<N_Entretenimiento, "Cine, salidas, etc.", "#45B7D1">>,
    <<N_Servicios, "Luz, agua, internet, etc.", "#96CEB4">>,
    <<N_Salud, "Gastos medicos", "#FFEEAD">>,
    <<N_Educacion, "Cursos, libros, etc.", "#D4A373">>,
    <<N_Gastos_Basicos, "Gastos basicos del hogar", "#9B5DE5">>,
    <<N_Ocio, "Actividades de ocio y diversion", "#FF9F1C">>,
    <<N_Reparaciones, "Reparaciones y mantenimiento", "#2EC4B6">>,
    <<N_Prestamo, "Pagos de prestamos", "#E71D36">>,
    <<N_Ahorro, "Ahorros e inversiones", "#2EC4B6">>,
    <<N_Predial, "Impuesto predial", "#6A4C93">>,
    <<N_Gastos_fijos, "Gastos fijos mensuales", "#9B5DE5">>,
    <<N_Otros, "Otros gastos", "#8B8C89">>
  >>

----------------------------------------------------------------------------
(* The SQLite store: schema and statements                                 *)
(*                                                                         *)
(* A store value db is [tipos_gasto, facturas, sqlite_sequence]: the two   *)
(* tables as sets of rows (each has an INTEGER PRIMARY KEY) and SQLite's   *)
(* AUTOINCREMENT bookkeeping, the largest rowid each table ever held.      *)
(* The columns fecha_creacion and fecha_actualizacion are written by the   *)
(* store and read by no statement of the program; they are left out.       *)

\* a database file that does not exist yet, or a new ':memory:' connection
EmptyDb ==
    [tipos_gasto |-> {}, facturas |-> {},
     sqlite_sequence |-> [tipos_gasto |-> 0, facturas |-> 0]]

\* the schema without UNIQUE on nombre
UniqueViolationNunca(T, nombre) == FALSE

\* nombre TEXT UNIQUE NOT NULL: would a new row with this nombre conflict?
UniqueViolation(T, nombre) == \E r \in T : r.nombre = nombre

\* the rowid of a table without AUTOINCREMENT: one more than the largest
\* rowid the table holds
NextRowidSinAutoincrement(db, tabla) ==
    IF db[tabla] = {} THEN 1
    ELSE 1 + (CHOOSE n \in {r.id : r \in db[tabla]} : \A r \in db[tabla] : r.id <= n)

\* id INTEGER PRIMARY KEY AUTOINCREMENT: the rowid of the next inserted row
NextRowid(db, tabla) == db.sqlite_sequence[tabla] + 1

\* the row INSERT INTO tipos_gasto (nombre, descripcion, color) adds to db
PutTipo(db, nombre, descripcion, color) ==
    LET id == NextRowid(db, "tipos_gasto")
    IN  [db EXCEPT !.tipos_gasto = @ \cup {[id |-> id, nombre |-> nombre,
                                            descripcion |-> descripcion,
                                            color |-> color]},
                   !.sqlite_sequence.tipos_gasto = id]

\* INSERT OR REPLACE: the row of that nombre is deleted and a new one added
InsertOrReplaceTipo(db, nombre, descripcion, color) ==
    PutTipo([db EXCEPT !.tipos_gasto = {r \in @ : r.nombre # nombre}],
            nombre, descripcion, color)

\* INSERT OR IGNORE INTO tipos_gasto (nombre, descripcion, color) VALUES (?, ?, ?)
InsertOrIgnoreTipo(db, nombre, descripcion, color) ==
    IF UniqueViolation(db.tipos_gasto, nombre) THEN db
    ELSE PutTipo(db, nombre, descripcion, color)

\* the loop of _insert_default_tipos_gasto over default_tipos[1..n]
RECURSIVE InsertDefaults(_, _)
InsertDefaults(db, n) ==
    IF n = 0 THEN db
    ELSE InsertOrIgnoreTipo(InsertDefaults(db, n - 1), default_tipos[n][1],
                            Some(default_tipos[n][2]), Some(default_tipos[n][3]))

insert_default_tipos_gasto(db) == InsertDefaults(db, Len(default_tipos))

\* _create_tables: CREATE TABLE / INDEX IF NOT EXISTS keep what the store
\* holds; then the default categories are inserted and the work committed
create_tables(db) == insert_default_tipos_gasto(db)

\* the lookup that sees only the categories the listing shows
ObtenerOCrearTipoListado(db, tipo) ==
    LET filas == {r \in db.tipos_gasto :
                    r.nombre = tipo /\ SqlLower(r.nombre) \notin {N_coche, N_coches}}
    IN  IF filas # {}
        THEN [ok |-> TRUE, db |-> db,
              tipo_id |-> (CHOOSE r \in filas : \A q \in filas : r.id <= q.id).id]
        ELSE IF \E r \in db.tipos_gasto : r.nombre = tipo
        THEN [ok |-> FALSE, db |-> db, tipo_id |-> 0]
        ELSE [ok |-> TRUE,
              db |-> [db EXCEPT !.tipos_gasto =
                        @ \cup {[id |-> db.sqlite_sequence.tipos_gasto + 1,
                                 nombre |-> tipo, descripcion |-> NULL,
                                 color |-> NULL]},
                      !.sqlite_sequence.tipos_gasto = @ + 1],
              tipo_id |-> db.sqlite_sequence.tipos_gasto + 1]

\* the lookup that takes the id a new category would get and forgets the INSERT
ObtenerOCrearTipoSinInsertar(db, tipo) ==
    LET filas == {r \in db.tipos_gasto : r.nombre = tipo}
    IN  IF filas # {}
        THEN [ok |-> TRUE, db |-> db,
              tipo_id |-> (CHOOSE r \in filas : \A q \in filas : r.id <= q.id).id]
        ELSE [ok |-> TRUE, db |-> db,
              tipo_id |-> db.sqlite_sequence.tipos_gasto + 1]

\* "Obtener o crear el tipo de gasto": SELECT id FROM tipos_gasto WHERE
\* nombre = ?, and INSERT INTO tipos_gasto (nombre) VALUES (?) when no row
\* matches.  ok = FALSE stands for the IntegrityError of a rejected INSERT.
ObtenerOCrearTipo(db, tipo) ==
    LET filas == {r \in db.tipos_gasto : r.nombre = tipo}
    IN  IF filas # {}
        THEN [ok |-> TRUE, db |-> db,
              tipo_id |-> (CHOOSE r \in filas : \A q \in filas : r.id <= q.id).id]
        ELSE IF UniqueViolation(db.tipos_gasto, tipo)
        THEN [ok |-> FALSE, db |-> db, tipo_id |-> 0]
        ELSE [ok |-> TRUE, db |-> PutTipo(db, tipo, NULL, NULL),
              tipo_id |-> NextRowid(db, "tipos_gasto")]

\* the date stored as it was given
FechaDbSinConvertir(fecha, ahora) ==
    IF Strptime_dmy(fecha).ok THEN fecha ELSE Strftime_ymd(ahora)

\* the conversion that keeps the text given when it does not parse
FechaDbSinSustituir(fecha, ahora) ==
    LET t == Strptime_dmy(fecha)
    IN  IF t.ok THEN Strftime_ymd(t) ELSE fecha

\* "Convertir la fecha al formato YYYY-MM-DD": strptime, and the current
\* date when it raises ValueError
FechaDb(fecha, ahora) ==
    LET t == Strptime_dmy(fecha)
    IN  IF t.ok THEN Strftime_ymd(t) ELSE Strftime_ymd(ahora)

\* INSERT INTO facturas (fecha, tipo_id, descripcion, valor) VALUES (?, ?, ?, ?)
InsertFactura(db, fecha_db, tipo_id, descripcion, valor) ==
    LET id == NextRowid(db, "facturas")
    IN  [db EXCEPT !.facturas = @ \cup {[id |-> id, fecha |-> fecha_db,
                                         tipo_id |-> tipo_id,
                                         descripcion |-> descripcion,
                                         valor |-> valor]},
                   !.sqlite_sequence.facturas = id]

\* the UPDATE without its WHERE clause
UpdateFacturaSinWhere(db, fecha_db, tipo_id, descripcion, valor, factura_id) ==
    [db EXCEPT !.facturas =
        {[id |-> f.id, fecha |-> fecha_db, tipo_id |-> tipo_id,
          descripcion |-> descripcion, valor |-> valor] : f \in @}]

\* INSERT OR REPLACE in place of the UPDATE
UpdateFacturaOInsertar(db, fecha_db, tipo_id, descripcion, valor, factura_id) ==
    [db EXCEPT !.facturas =
        {f \in @ : f.id # factura_id}
          \cup {[id |-> factura_id, fecha |-> fecha_db, tipo_id |-> tipo_id,
                 descripcion |-> descripcion, valor |-> valor]}]

\* UPDATE facturas SET fecha = ?, tipo_id = ?, descripcion = ?, valor = ?,
\* fecha_actualizacion = CURRENT_TIMESTAMP WHERE id = ?
UpdateFactura(db, fecha_db, tipo_id, descripcion, valor, factura_id) ==
    [db EXCEPT !.facturas =
        {IF f.id = factura_id
         THEN [id |-> f.id, fecha |-> fecha_db, tipo_id |-> tipo_id,
               descripcion |-> descripcion, valor |-> valor]
         ELSE f : f \in @}]

\* cursor.rowcount of a statement with WHERE id = ?
RowCount(db, factura_id) == Cardinality({f \in db.facturas : f.id = factura_id})

\* the DELETE with WHERE tipo_id = ?
DeleteFacturaPorTipo(db, factura_id) ==
    [db EXCEPT !.facturas = {f \in @ : f.tipo_id # factura_id}]

\* the DELETE that also removes a category left without records
DeleteFacturaYCategoria(db, factura_id) ==
    [db EXCEPT !.facturas = {f \in @ : f.id # factura_id},
               !.tipos_gasto = {tg \in @ : \E f \in db.facturas :
                                   f.id # factura_id /\ f.tipo_id = tg.id}]

\* DELETE FROM facturas WHERE id = ?
DeleteFactura(db, factura_id) ==
    [db EXCEPT !.facturas = {f \in @ : f.id # factura_id}]

----------------------------------------------------------------------------
(* Queries *)

\* the display form of a stored date: strptime('%Y-%m-%d') and
\* strftime('%d/%m/%Y'), the stored text as it is when it does not parse
FechaMostrar(fecha) ==
    LET t == Strptime_ymd(fecha)
    IN  IF t.ok THEN Strftime_dmy(t) ELSE fecha

\* the join with a WHERE that applies each bound on its own
FilasFacturasCadaLimite(db, fecha_inicio, fecha_fin) ==
    {[id |-> f.id, fecha |-> f.fecha, tipo |-> tg.nombre,
      descripcion |-> f.descripcion, valor |-> f.valor, color |-> tg.color] :
        <<f, tg>> \in {p \in db.facturas \X db.tipos_gasto :
                         /\ p[1].tipo_id = p[2].id
                         /\ fecha_inicio # <<>> => LexLeq(fecha_inicio, p[1].fecha)
                         /\ fecha_fin # <<>> => LexLeq(p[1].fecha, fecha_fin)}}

\* FROM facturas f JOIN tipos_gasto tg ON f.tipo_id = tg.id, with the
\* optional WHERE f.fecha BETWEEN ? AND ?  (a bound that is None or '' is
\* falsy: the empty text)
FilasFacturas(db, fecha_inicio, fecha_fin) ==
    {[id |-> f.id, fecha |-> f.fecha, tipo |-> tg.nombre,
      descripcion |-> f.descripcion, valor |-> f.valor, color |-> tg.color] :
        <<f, tg>> \in {p \in db.facturas \X db.tipos_gasto :
                         /\ p[1].tipo_id = p[2].id
                         /\ (fecha_inicio # <<>> /\ fecha_fin # <<>>)
                              => /\ LexLeq(fecha_inicio, p[1].fecha)
                                 /\ LexLeq(p[1].fecha, fecha_fin)}}

\* ORDER BY f.fecha, ascending
OrderByFechaAsc(S) ==
    {q \in [1..Cardinality(S) -> S] :
       /\ \A i, j \in 1..Cardinality(S) : i # j => q[i] # q[j]
       /\ \A i, j \in 1..Cardinality(S) : i < j => LexLeq(q[i].fecha, q[j].fecha)}

\* ORDER BY f.fecha DESC: every order of the rows SQLite may produce (the
\* order of rows with equal fecha is not specified)
OrderByFechaDesc(S) ==
    {q \in [1..Cardinality(S) -> S] :
       /\ \A i, j \in 1..Cardinality(S) : i # j => q[i] # q[j]
       /\ \A i, j \in 1..Cardinality(S) : i < j => LexLeq(q[j].fecha, q[i].fecha)}

\* obtener_facturas: the set of lists the call may return
obtener_facturas(db, fecha_inicio, fecha_fin) ==
    {[i \in 1..Len(q) |-> [q[i] EXCEPT !.fecha = FechaMostrar(@)]] :
        q \in OrderByFechaDesc(FilasFacturas(db, fecha_inicio, fecha_fin))}

\* the filter without LOWER()
NoExcluidoExacto(nombre) == nombre \notin {N_coche, N_coches}

\* WHERE LOWER(nombre) NOT IN ('coche', 'coches')
NoExcluido(nombre) == SqlLower(nombre) \notin {N_coche, N_coches}

\* ORDER BY nombre: the first row, then the others in order (nombre is
\* UNIQUE, so the order is total; rows of one nombre would come in the
\* order of their rowid)
Antes(q, r) ==
    LexLess(q.nombre, r.nombre) \/ (q.nombre = r.nombre /\ q.id < r.id)

RECURSIVE OrderByNombre(_)
OrderByNombre(S) ==
    IF S = {} THEN <<>>
    ELSE LET r == CHOOSE x \in S : \A y \in S : x = y \/ Antes(x, y)
         IN  <<r>> \o OrderByNombre(S \ {r})

\* the listing that also hides the categories without a colour
obtener_tipos_gasto_con_color(db) ==
    OrderByNombre({r \in db.tipos_gasto : NoExcluido(r.nombre) /\ r.color # NULL})

\* obtener_tipos_gasto: the list the call returns
obtener_tipos_gasto(db) ==
    OrderByNombre({r \in db.tipos_gasto : NoExcluido(r.nombre)})

\* SUM(f.valor) over the rows of S
RECURSIVE SumValor(_)
SumValor(S) ==
    IF S = {} THEN 0
    ELSE LET f == CHOOSE x \in S : TRUE
         IN  f.valor + SumValor(S \ {f})

\* FROM tipos_gasto tg LEFT JOIN facturas f ON tg.id = f.tipo_id: a pair for
\* every record of a category, and a pair with f NULL for a category that
\* has none
LeftJoinFacturas(db) ==
    {<<tg, Some(f)>> : <<tg, f>> \in {p \in db.tipos_gasto \X db.facturas :
                                        p[1].id = p[2].tipo_id}}
      \cup {<<tg, NULL>> : tg \in {t \in db.tipos_gasto :
                                      \A f \in db.facturas : f.tipo_id # t.id}}

\* the WHERE of the summary, applied to the joined rows when both bounds are
\* truthy: f.fecha BETWEEN ? AND ? is NULL, so not true, on a pair with f NULL
WhereFechaEntre(J, fecha_inicio, fecha_fin) ==
    IF fecha_inicio # <<>> /\ fecha_fin # <<>>
    THEN {p \in J : /\ p[2] # NULL
                    /\ LexLeq(fecha_inicio, p[2][1].fecha)
                    /\ LexLeq(p[2][1].fecha, fecha_fin)}
    ELSE J

\* the summary over the categories the listing shows only
GroupByTipoListado(db, fecha_inicio, fecha_fin) ==
    LET J == WhereFechaEntre(LeftJoinFacturas(db), fecha_inicio, fecha_fin)
    IN  {[tipo |-> tg.nombre, color |-> tg.color,
          cantidad |-> Cardinality({p \in J : p[1] = tg /\ p[2] # NULL}),
          total |-> IF \A p \in J : p[1] = tg => p[2] = NULL THEN NULL
                    ELSE Some(SumValor({p[2][1] : p \in {x \in J : x[1] = tg}}))] :
            tg \in {p[1] : p \in {x \in J : NoExcluido(x[1].nombre)}}}

\* the summary that counts the joined rows, COUNT(*)
GroupByTipoCuentaFilas(db, fecha_inicio, fecha_fin) ==
    LET J == WhereFechaEntre(LeftJoinFacturas(db), fecha_inicio, fecha_fin)
    IN  {[tipo |-> tg.nombre, color |-> tg.color,
          cantidad |-> Cardinality({p \in J : p[1] = tg}),
          total |-> IF \A p \in J : p[1] = tg => p[2] = NULL THEN NULL
                    ELSE Some(SumValor({p[2][1] : p \in {x \in J : x[1] = tg}}))] :
            tg \in {p[1] : p \in J}}

\* SELECT tg.nombre as tipo, tg.color, COUNT(f.id) as cantidad, SUM(f.valor)
\* as total ... GROUP BY tg.id, tg.nombre, tg.color: one row for every
\* category that keeps a joined row; COUNT counts the rows with f not NULL
\* and SUM is NULL when there is none
GroupByTipo(db, fecha_inicio, fecha_fin) ==
    LET J == WhereFechaEntre(LeftJoinFacturas(db), fecha_inicio, fecha_fin)
    IN  {[tipo |-> tg.nombre, color |-> tg.color,
          cantidad |-> Cardinality({p \in J : p[1] = tg /\ p[2] # NULL}),
          total |-> IF \A p \in J : p[1] = tg => p[2] = NULL THEN NULL
                    ELSE Some(SumValor({p[2][1] : p \in {x \in J : x[1] = tg}}))] :
            tg \in {p[1] : p \in J}}

\* NULL sorts below every number
TotalLeq(x, y) == x = NULL \/ (y # NULL /\ x[1] <= y[1])

\* ORDER BY total DESC: every order of the rows SQLite may produce
OrderByTotalDesc(S) ==
    {q \in [1..Cardinality(S) -> S] :
       /\ \A i, j \in 1..Cardinality(S) : i # j => q[i] # q[j]
       /\ \A i, j \in 1..Cardinality(S) : i < j => TotalLeq(q[j].total, q[i].total)}

\* obtener_resumen_por_tipo: the set of lists the call may return, each an
\* arrangement of the rows of GroupByTipo
obtener_resumen_por_tipo(db, fecha_inicio, fecha_fin) ==
    OrderByTotalDesc(GroupByTipo(db, fecha_inicio, fecha_fin))

\* str(n) of a natural number
RECURSIVE Str(_)
Str(n) == IF n < 10 THEN <<48 + n>> ELSE Append(Str(n \div 10), 48 + (n % 10))

\* the texts SQLite's strftime() reads as a date with no time: YYYY-MM-DD
\* with a month 01..12 and a day 01..31
SqlEsFecha(s) ==
    /\ Len(s) = 10
    /\ s[5] = 45 /\ s[8] = 45
    /\ \A i \in {1, 2, 3, 4, 6, 7, 9, 10} : IsDigit(s[i])
    /\ DigitsVal(SubSeq(s, 6, 7)) \in 1..12
    /\ DigitsVal(SubSeq(s, 9, 10)) \in 1..31

\* SQLite's strftime('%Y', s) and strftime('%Y-%m', s): the fields as read,
\* NULL for a text that is no date
SqlStrftime_Y(s) == IF SqlEsFecha(s) THEN Some(SubSeq(s, 1, 4)) ELSE NULL

SqlStrftime_Ym(s) == IF SqlEsFecha(s) THEN Some(SubSeq(s, 1, 7)) ELSE NULL

\* ORDER BY mes (the groups have different mes)
RECURSIVE OrderByMes(_)
OrderByMes(S) ==
    IF S = {} THEN <<>>
    ELSE LET r == CHOOSE x \in S : \A y \in S : x = y \/ LexLess(x.mes, y.mes)
         IN  <<r>> \o OrderByMes(S \ {r})

\* the monthly summary grouped by year only
obtener_resumen_mensual_por_anio(db, anio, ahora) ==
    LET a == IF anio = NULL THEN ahora.y ELSE anio[1]
        filas == {f \in db.facturas : SqlStrftime_Y(f.fecha) = Some(Str(a))}
    IN  OrderByMes({[mes |-> SqlStrftime_Ym(f.fecha)[1], total |-> SumValor(filas)] :
                       f \in filas})

\* obtener_resumen_mensual(anio): anio None is datetime.now().year; the rows
\* WHERE strftime('%Y', f.fecha) = str(anio), GROUP BY strftime('%Y-%m',
\* f.fecha) with SUM(f.valor), ORDER BY mes
obtener_resumen_mensual(db, anio, ahora) ==
    LET a == IF anio = NULL THEN ahora.y ELSE anio[1]
        filas == {f \in db.facturas : SqlStrftime_Y(f.fecha) = Some(Str(a))}
        meses == {SqlStrftime_Ym(f.fecha) : f \in filas}
    IN  OrderByMes({[mes |-> m[1],
                     total |-> SumValor({f \in filas : SqlStrftime_Ym(f.fecha) = m})] :
                       m \in meses})

----------------------------------------------------------------------------
(* The write operations, each as the transaction it runs on a store db:   *)
(* excepcion = TRUE when a statement raised inside "with conn", and then   *)
(* the connection rolls back and db is the store as it was.                *)

\* agregar_factura; valor is a number, which float(valor) keeps
AgregarTx(db, fecha, tipo, descripcion, valor, ahora) ==
    LET r == ObtenerOCrearTipo(db, tipo)
    IN  IF ~r.ok THEN [excepcion |-> TRUE, db |-> db, id |-> 0]
        ELSE [excepcion |-> FALSE,
              db |-> InsertFactura(r.db, FechaDb(fecha, ahora), r.tipo_id,
                                   descripcion, valor),
              id |-> NextRowid(r.db, "facturas")]

\* agregar_factura whose connection commits on leaving "with conn" with an
\* exception
AgregarTxFallaSinRollback(db, tipo) ==
    [excepcion |-> TRUE, db |-> ObtenerOCrearTipo(db, tipo).db, id |-> 0]

\* agregar_factura when the INSERT INTO facturas raises, because float(valor)
\* raises ValueError or the store rejects the row: the category has been
\* resolved or created by then, "with conn" is left with the exception and
\* rolls the transaction back, and the except clause raises again
AgregarTxFalla(db, tipo) ==
    LET r == ObtenerOCrearTipo(db, tipo)
    IN  [excepcion |-> TRUE, db |-> db, id |-> 0]

\* actualizar_factura: an exception is logged and answered with False
ActualizarTx(db, factura_id, fecha, tipo, descripcion, valor, ahora) ==
    LET r == ObtenerOCrearTipo(db, tipo)
    IN  IF ~r.ok THEN [excepcion |-> TRUE, db |-> db, ok |-> FALSE]
        ELSE [excepcion |-> FALSE,
              db |-> UpdateFactura(r.db, FechaDb(fecha, ahora), r.tipo_id,
                                   descripcion, valor, factura_id),
              ok |-> RowCount(r.db, factura_id) > 0]

\* eliminar_factura
EliminarTx(db, factura_id) ==
    [excepcion |-> FALSE, db |-> DeleteFactura(db, factura_id),
     ok |-> RowCount(db, factura_id) > 0]

\* actualizar_factura with an except clause that raises again
ActualizarTxFallaPropaga(db) == [excepcion |-> TRUE, db |-> db, ok |-> FALSE]

\* actualizar_factura when the store faults (sqlite3.Error from connect, a
\* statement or the commit): "with conn" rolls back, the except clause logs
\* the error and answers False
ActualizarTxFalla(db) == [excepcion |-> FALSE, db |-> db, ok |-> FALSE]

\* eliminar_factura when the store faults: the same
EliminarTxFalla(db) == [excepcion |-> FALSE, db |-> db, ok |-> FALSE]

\* float(s) of a JSON text: the number a text of decimal digits denotes;
\* ok = FALSE stands for ValueError (the model's other texts hold letters)
FloatDeTexto(s) ==
    IF s # <<>> /\ AllDigits(s) THEN [ok |-> TRUE, v |-> DigitsVal(s)]
    ELSE [ok |-> FALSE, v |-> 0]

\* one turn of the loop of migrar_desde_json over factura, an object whose
\* keys may be missing (NULL): factura['tipo'] and factura['valor'] raise
\* KeyError, a missing 'fecha' is caught and the current date used, a
\* missing 'descripcion' is ''
MigrarFactura(db, factura, ahora) ==
    IF factura.tipo = NULL THEN [excepcion |-> TRUE, db |-> db]
    ELSE LET r == ObtenerOCrearTipo(db, factura.tipo[1])
             fecha == IF factura.fecha = NULL THEN Strftime_ymd(ahora)
                      ELSE FechaDb(factura.fecha[1], ahora)
             descripcion == IF factura.descripcion = NULL THEN ""
                            ELSE factura.descripcion[1]
             valor == IF factura.valor = NULL THEN [ok |-> FALSE, v |-> 0]
                      ELSE FloatDeTexto(factura.valor[1])
         IN  IF ~r.ok \/ ~valor.ok THEN [excepcion |-> TRUE, db |-> db]
             ELSE [excepcion |-> FALSE,
                   db |-> InsertFactura(r.db, fecha, r.tipo_id, descripcion, valor.v)]

\* the loop over facturas[1..n]; an exception ends it
RECURSIVE MigrarFilas(_, _, _, _)
MigrarFilas(db, filas, n, ahora) ==
    IF n = 0 THEN [excepcion |-> FALSE, db |-> db]
    ELSE LET antes == MigrarFilas(db, filas, n - 1, ahora)
         IN  IF antes.excepcion THEN antes
             ELSE MigrarFactura(antes.db, filas[n], ahora)

\* the import that commits what it did before the exception
MigrarTxParcial(db, archivo, ahora) ==
    IF ~archivo.legible THEN [excepcion |-> TRUE, db |-> db, count |-> 0]
    ELSE LET r == MigrarFilas(db, archivo.facturas, Len(archivo.facturas), ahora)
         IN  IF r.excepcion THEN [excepcion |-> TRUE, db |-> r.db, count |-> 0]
             ELSE [excepcion |-> FALSE, db |-> r.db,
                   count |-> Len(archivo.facturas)]

\* migrar_desde_json on a file that cannot be read or parsed (legible =
\* FALSE) or holds the list facturas; an exception leaves "with conn"
\* without commit and is raised to the caller
MigrarTx(db, archivo, ahora) ==
    IF ~archivo.legible THEN [excepcion |-> TRUE, db |-> db, count |-> 0]
    ELSE LET r == MigrarFilas(db, archivo.facturas, Len(archivo.facturas), ahora)
         IN  IF r.excepcion THEN [excepcion |-> TRUE, db |-> db, count |-> 0]
             ELSE [excepcion |-> FALSE, db |-> r.db,
                   count |-> Len(archivo.facturas)]

----------------------------------------------------------------------------
(* Inputs of the model *)

\* the dates '05/03/2024', '7/1/2025' (valid, the second not zero padded)
\* and '31/02/2024' (no such day)
F_05_03_2024 == <<48, 53, 47, 48, 51, 47, 50, 48, 50, 52>>

F_7_1_2025 == <<55, 47, 49, 47, 50, 48, 50, 53>>

F_31_02_2024 == <<51, 49, 47, 48, 50, 47, 50, 48, 50, 52>>

\* the calls' arguments (fecha, tipo, descripcion, valor): every kind of
\* date with a default category, a new name, and two names the listing
\* excludes; the first and the last share their date
Entradas ==
    {[fecha |-> F_05_03_2024, tipo |-> N_Otros, descripcion |-> "pan", valor |-> 1000],
     [fecha |-> F_7_1_2025, tipo |-> N_Test, descripcion |-> "luz", valor |-> 2000],
     [fecha |-> F_31_02_2024, tipo |-> N_coches, descripcion |-> "pan", valor |-> 2000],
     [fecha |-> F_05_03_2024, tipo |-> N_Coche, descripcion |-> "luz", valor |-> 1000]}

\* what datetime.now() may answer
Ahoras == {[ok |-> TRUE, y |-> 2025, m |-> 1, d |-> 7],
           [ok |-> TRUE, y |-> 2025, m |-> 2, d |-> 8]}

\* datetime.now() is read only when the date did not parse
RelojLeido(fecha) == IF Strptime_dmy(fecha).ok THEN {NoFecha} ELSE Ahoras

\* the amounts '1500' and '2500' as JSON texts, and the text 'abc'
V_1500 == <<49, 53, 48, 48>>

V_2500 == <<50, 53, 48, 48>>

V_abc == <<97, 98, 99>>

\* entries of a legacy file: a complete one, one whose 'fecha' is no date,
\* one without 'fecha' and 'descripcion', one whose 'valor' is no number,
\* one of a new category without 'valor', and one without 'tipo'
EntradasJson ==
    {[fecha |-> Some(F_7_1_2025), tipo |-> Some(N_Test),
      descripcion |-> Some("pan"), valor |-> Some(V_1500)],
     [fecha |-> Some(F_31_02_2024), tipo |-> Some(N_Test),
      descripcion |-> Some("luz"), valor |-> Some(V_2500)],
     [fecha |-> NULL, tipo |-> Some(N_coches),
      descripcion |-> NULL, valor |-> Some(V_2500)],
     [fecha |-> Some(F_05_03_2024), tipo |-> Some(N_Otros),
      descripcion |-> Some("luz"), valor |-> Some(V_abc)],
     [fecha |-> Some(F_05_03_2024), tipo |-> Some(N_coche),
      descripcion |-> Some("pan"), valor |-> NULL],
     [fecha |-> Some(F_05_03_2024), tipo |-> NULL,
      descripcion |-> Some("pan"), valor |-> Some(V_1500)]}

ArchivoIlegible == [legible |-> FALSE, facturas |-> <<>>]

\* the legacy files: unreadable, or a list of up to MaxEntradasJson entries
Archivos ==
    {ArchivoIlegible} \cup
    {[legible |-> TRUE, facturas |-> q] :
        q \in UNION {[1..n -> EntradasJson] : n \in 0..MaxEntradasJson}}

\* datetime.now() is read when some entry's date is missing or does not
\* parse; one reading stands for the whole call
RelojLeidoJson(archivo) ==
    IF \E i \in 1..Len(archivo.facturas) :
          \/ archivo.facturas[i].fecha = NULL
          \/ ~Strptime_dmy(archivo.facturas[i].fecha[1]).ok
    THEN Ahoras ELSE {NoFecha}

Ids == 1..(MaxFacturas + 1)

\* the bounds '2024-03-05', '2024-12-31' and '2025-01-07' of a query
L_2024_03_05 == <<50, 48, 50, 52, 45, 48, 51, 45, 48, 53>>

L_2024_12_31 == <<50, 48, 50, 52, 45, 49, 50, 45, 51, 49>>

L_2025_01_07 == <<50, 48, 50, 53, 45, 48, 49, 45, 48, 55>>

\* fecha_inicio and fecha_fin as given: a date YYYY-MM-DD, or the empty
\* text for a bound that is None or ''
FechasLimite == {L_2024_03_05, L_2024_12_31, L_2025_01_07}

Limites == FechasLimite \cup {<<>>}

\* anio of obtener_resumen_mensual: a year, or NULL for None
Anios == {Some(2024), Some(2025), Some(2026), NULL}

----------------------------------------------------------------------------
(* State *)

\* the store as one value
Db == [tipos_gasto |-> tipos_gasto, facturas |-> facturas,
       sqlite_sequence |-> sqlite_sequence]

\* what COMMIT (or the rollback, for db = Db) leaves in the store
Commit(db) ==
    /\ tipos_gasto' = db.tipos_gasto
    /\ facturas' = db.facturas
    /\ sqlite_sequence' = db.sqlite_sequence

\* ult: the last call of the Database API, its arguments and its answer
SinArgs == [factura_id |-> 0, fecha |-> <<>>, tipo |-> <<>>,
            descripcion |-> "", valor |-> 0]

Args(factura_id, e) ==
    [factura_id |-> factura_id, fecha |-> e.fecha, tipo |-> e.tipo,
     descripcion |-> e.descripcion, valor |-> e.valor]

SinRet == [id |-> 0, ok |-> FALSE, n |-> 0]

SinArchivo == [legible |-> TRUE, facturas |-> <<>>]

\* falla: whether the store faulted during the call
Llamada(op, arg, ahora, ret, excepcion) ==
    [op |-> op, arg |-> arg, archivo |-> SinArchivo, ahora |-> ahora,
     ret |-> ret, excepcion |-> excepcion, falla |-> FALSE]

\* the legacy file facturas_qt.json and its backup copy: NULL for a file
\* that does not exist, else the file
SinLegado == [json_path |-> NULL, backup_path |-> NULL]

\* the callers that hold a connection of their own to the store
Llamadores == {1, 2}

\* a caller outside agregar_factura; tipo_id 0 stands for no row
EnReposo == [pc |-> "reposo", e |-> SinArgs, tipo_id |-> 0,
             ret |-> 0, excepcion |-> ""]

\* no connection holds the write lock; with a holder, db is the store as
\* that connection sees it, its uncommitted rows included
SinTransaccion == [de |-> 0, db |-> EmptyDb]

\* Database(db_path) on a location that holds no store yet
Init ==
    /\ tipos_gasto = create_tables(EmptyDb).tipos_gasto
    /\ facturas = create_tables(EmptyDb).facturas
    /\ sqlite_sequence = create_tables(EmptyDb).sqlite_sequence
    /\ ult = Llamada("init", SinArgs, NoFecha, SinRet, FALSE)
    /\ legado = SinLegado
    /\ self_facturas = <<>>
    /\ llamador = [c \in Llamadores |-> EnReposo]
    /\ transaccion = SinTransaccion

\* Database(db_path) again on the same location (a restart)
initialize ==
    /\ UNCHANGED fuera
    /\ \E db \in {create_tables(Db)} : Commit(db)
    /\ ult' = Llamada("init", SinArgs, NoFecha, SinRet, FALSE)

agregar_factura ==
    /\ UNCHANGED fuera
    /\ sqlite_sequence.facturas < MaxFacturas
    /\ \E e \in Entradas :
         \E ahora \in RelojLeido(e.fecha) :
           \E tx \in {AgregarTx(Db, e.fecha, e.tipo, e.descripcion, e.valor, ahora)} :
             /\ Commit(tx.db)
             /\ ult' = Llamada("agregar_factura", Args(0, e), ahora,
                               [SinRet EXCEPT !.id = tx.id], tx.excepcion)

actualizar_factura ==
    /\ UNCHANGED fuera
    /\ \E factura_id \in Ids, e \in Entradas :
      \E ahora \in RelojLeido(e.fecha) :
        \E tx \in {ActualizarTx(Db, factura_id, e.fecha, e.tipo, e.descripcion,
                                e.valor, ahora)} :
          /\ Commit(tx.db)
          /\ ult' = Llamada("actualizar_factura", Args(factura_id, e), ahora,
                            [SinRet EXCEPT !.ok = tx.ok], FALSE)

eliminar_factura ==
    /\ UNCHANGED fuera
    /\ \E factura_id \in Ids :
      \E tx \in {EliminarTx(Db, factura_id)} :
        /\ Commit(tx.db)
        /\ ult' = Llamada("eliminar_factura",
                          [SinArgs EXCEPT !.factura_id = factura_id],
                          NoFecha, [SinRet EXCEPT !.ok = tx.ok], FALSE)

migrar_desde_json ==
    /\ UNCHANGED fuera
    /\ \E archivo \in Archivos :
      /\ sqlite_sequence.facturas + Len(archivo.facturas) <= MaxFacturas
      /\ \E ahora \in RelojLeidoJson(archivo) :
           \E tx \in {MigrarTx(Db, archivo, ahora)} :
             /\ Commit(tx.db)
             /\ ult' = [Llamada("migrar_desde_json", SinArgs, ahora,
                                [SinRet EXCEPT !.n = tx.count], tx.excepcion)
                          EXCEPT !.archivo = archivo]

Next ==
    \/ initialize
    \/ agregar_factura
    \/ actualizar_factura
    \/ eliminar_factura
    \/ migrar_desde_json

Spec == Init /\ [][Next]_vars

\* the calls of actualizar_factura and eliminar_factura during which the
\* store faults
actualizar_factura_falla ==
    /\ UNCHANGED fuera
    /\ \E factura_id \in Ids, e \in Entradas :
      \E tx \in {ActualizarTxFalla(Db)} :
        /\ Commit(tx.db)
        /\ ult' = [Llamada("actualizar_factura", Args(factura_id, e), NoFecha,
                           [SinRet EXCEPT !.ok = tx.ok], tx.excepcion)
                     EXCEPT !.falla = TRUE]

eliminar_factura_falla ==
    /\ UNCHANGED fuera
    /\ \E factura_id \in Ids :
      \E tx \in {EliminarTxFalla(Db)} :
        /\ Commit(tx.db)
        /\ ult' = [Llamada("eliminar_factura",
                           [SinArgs EXCEPT !.factura_id = factura_id],
                           NoFecha, [SinRet EXCEPT !.ok = tx.ok], tx.excepcion)
                     EXCEPT !.falla = TRUE]

agregar_factura_falla ==
    /\ UNCHANGED fuera
    /\ \E e \in Entradas :
      \E tx \in {AgregarTxFalla(Db, e.tipo)} :
        /\ Commit(tx.db)
        /\ ult' = [Llamada("agregar_factura", Args(0, e), NoFecha,
                           [SinRet EXCEPT !.id = tx.id], tx.excepcion)
                     EXCEPT !.falla = TRUE]

NextFalla ==
    \/ Next
    \/ agregar_factura_falla
    \/ actualizar_factura_falla
    \/ eliminar_factura_falla

\* the program on a store that may fault
SpecFalla == Init /\ [][NextFalla]_vars

----------------------------------------------------------------------------
(* agregar_factura by two callers of a store kept in a file: each call     *)
(* opens a connection of its own and its statements interleave with the    *)
(* other call's.  A connection reads the committed tables; its first       *)
(* INSERT begins a transaction and takes the write lock of the file, which *)
(* it holds to its COMMIT or rollback.                                      *)

\* what the steps of a call leave alone beside the tables
fueraDeLlamada == <<ult, legado, self_facturas>>

\* does connection c wait for the write lock?
Bloqueado(c) == transaccion.de \notin {0, c}

\* the tables as connection c sees them when it writes
DbDe(c) == IF transaccion.de = c THEN transaccion.db ELSE Db

\* the caller leaves agregar_factura with an exception: "with conn" rolls
\* back what the connection wrote and the except clause raises again
Raise(c, excepcion) ==
    /\ llamador' = [llamador EXCEPT ![c].pc = "fin", ![c].excepcion = excepcion]
    /\ transaccion' = IF transaccion.de = c THEN SinTransaccion ELSE transaccion
    /\ UNCHANGED <<tipos_gasto, facturas, sqlite_sequence>>

\* a caller enters agregar_factura and opens its connection
llamar ==
    /\ UNCHANGED <<tipos_gasto, facturas, sqlite_sequence, transaccion>>
    /\ UNCHANGED fueraDeLlamada
    /\ \E c \in Llamadores, e \in Entradas :
         /\ llamador[c].pc = "reposo"
         /\ sqlite_sequence.facturas
              + Cardinality({d \in Llamadores :
                               llamador[d].pc \notin {"reposo", "fin"}})
              < MaxFacturas
         /\ llamador' = [llamador EXCEPT ![c] =
                           [EnReposo EXCEPT !.pc = "select", !.e = Args(0, e)]]

\* SELECT id FROM tipos_gasto WHERE nombre = ? and the test of tipo_row
select_tipo ==
    /\ UNCHANGED <<tipos_gasto, facturas, sqlite_sequence, transaccion>>
    /\ UNCHANGED fueraDeLlamada
    /\ \E c \in Llamadores :
         /\ llamador[c].pc = "select"
         /\ LET filas == {r \in tipos_gasto : r.nombre = llamador[c].e.tipo}
            IN  llamador' =
                  IF filas = {} THEN [llamador EXCEPT ![c].pc = "insert_tipo"]
                  ELSE [llamador EXCEPT
                          ![c].pc = "insert_factura",
                          ![c].tipo_id =
                             (CHOOSE r \in filas : \A q \in filas : r.id <= q.id).id]

\* INSERT INTO tipos_gasto (nombre) VALUES (?) once the write lock is free:
\* IntegrityError when the committed table holds the name by now
insert_tipo ==
    /\ UNCHANGED fueraDeLlamada
    /\ \E c \in Llamadores :
         /\ llamador[c].pc = "insert_tipo"
         /\ ~Bloqueado(c)
         /\ IF UniqueViolation(DbDe(c).tipos_gasto, llamador[c].e.tipo)
            THEN Raise(c, "IntegrityError")
            ELSE /\ transaccion' =
                      [de |-> c,
                       db |-> PutTipo(DbDe(c), llamador[c].e.tipo, NULL, NULL)]
                 /\ llamador' = [llamador EXCEPT
                                   ![c].pc = "insert_factura",
                                   ![c].tipo_id = NextRowid(DbDe(c), "tipos_gasto")]
                 /\ UNCHANGED <<tipos_gasto, facturas, sqlite_sequence>>

\* the date conversion, INSERT INTO facturas, lastrowid and conn.commit()
\* once the write lock is free or held by this connection
insert_factura ==
    /\ UNCHANGED fueraDeLlamada
    /\ \E c \in Llamadores :
         /\ llamador[c].pc = "insert_factura"
         /\ ~Bloqueado(c)
         /\ \E ahora \in RelojLeido(llamador[c].e.fecha) :
              /\ Commit(InsertFactura(DbDe(c),
                                      FechaDb(llamador[c].e.fecha, ahora),
                                      llamador[c].tipo_id,
                                      llamador[c].e.descripcion,
                                      llamador[c].e.valor))
              /\ llamador' = [llamador EXCEPT
                                ![c].pc = "fin",
                                ![c].ret = NextRowid(DbDe(c), "facturas")]
              /\ transaccion' = SinTransaccion

\* an INSERT that waited for the write lock longer than the connection's
\* timeout: OperationalError (database is locked)
database_is_locked ==
    /\ UNCHANGED fueraDeLlamada
    /\ \E c \in Llamadores :
         /\ llamador[c].pc \in {"insert_tipo", "insert_factura"}
         /\ Bloqueado(c)
         /\ Raise(c, "OperationalError")

\* the caller has its answer and may call again
retornar ==
    /\ UNCHANGED <<tipos_gasto, facturas, sqlite_sequence, transaccion>>
    /\ UNCHANGED fueraDeLlamada
    /\ \E c \in Llamadores :
         /\ llamador[c].pc = "fin"
         /\ llamador' = [llamador EXCEPT ![c] = EnReposo]

NextConc ==
    \/ llamar
    \/ select_tipo
    \/ insert_tipo
    \/ insert_factura
    \/ database_is_locked
    \/ retornar

\* two callers of agregar_factura on one store file
SpecConc == Init /\ [][NextConc]_vars

----------------------------------------------------------------------------
(* The application window: MainWindow keeps the list self.facturas beside  *)
(* the store, imports the legacy file facturas_qt.json when it starts, and  *)
(* writes the list back with guardar_datos.  An entry of self.facturas is a *)
(* row of obtener_facturas, or the dictionary of the form, which has no     *)
(* 'id' until guardar_datos sets it.                                        *)

\* the startup that imports whenever the legacy file exists
MigrarDatosDesdeJsonSiempre(db, leg, ahora) ==
    IF leg.json_path = NULL
    THEN [db |-> db, legado |-> leg, invocado |-> FALSE, excepcion |-> FALSE,
          count |-> 0]
    ELSE LET tx == MigrarTx(db, leg.json_path[1], ahora)
         IN  IF tx.excepcion
             THEN [db |-> tx.db, legado |-> leg, invocado |-> TRUE,
                   excepcion |-> TRUE, count |-> 0]
             ELSE [db |-> tx.db,
                   legado |-> [json_path |-> NULL, backup_path |-> leg.json_path],
                   invocado |-> TRUE, excepcion |-> FALSE, count |-> tx.count]

\* the startup that leaves the imported file where it is
MigrarDatosDesdeJsonSinRenombrar(db, leg, ahora) ==
    IF leg.json_path = NULL \/ <<>> \notin obtener_facturas(db, <<>>, <<>>)
    THEN [db |-> db, legado |-> leg, invocado |-> FALSE, excepcion |-> FALSE,
          count |-> 0]
    ELSE LET tx == MigrarTx(db, leg.json_path[1], ahora)
         IN  [db |-> tx.db, legado |-> leg, invocado |-> TRUE,
              excepcion |-> tx.excepcion, count |-> tx.count]

\* _migrar_datos_desde_json: when json_path exists and obtener_facturas()
\* is empty, migrar_desde_json(json_path) and then the rename of json_path
\* to backup_path; an exception of the import is logged, and the file stays
MigrarDatosDesdeJson(db, leg, ahora) ==
    IF leg.json_path = NULL \/ <<>> \notin obtener_facturas(db, <<>>, <<>>)
    THEN [db |-> db, legado |-> leg, invocado |-> FALSE, excepcion |-> FALSE,
          count |-> 0]
    ELSE LET tx == MigrarTx(db, leg.json_path[1], ahora)
         IN  IF tx.excepcion
             THEN [db |-> tx.db, legado |-> leg, invocado |-> TRUE,
                   excepcion |-> TRUE, count |-> 0]
             ELSE [db |-> tx.db,
                   legado |-> [json_path |-> NULL, backup_path |-> leg.json_path],
                   invocado |-> TRUE, excepcion |-> FALSE, count |-> tx.count]

\* factura['id'] = factura_id
ConId(factura, factura_id) ==
    [k \in DOMAIN factura \cup {"id"} |->
       IF k = "id" THEN factura_id ELSE factura[k]]

\* the turn of guardar_datos' loop for self.facturas[n]: an entry whose id
\* is among facturas_actuales is updated and its id taken out of them, any
\* other entry is added and given the new id; an exception of
\* agregar_factura ends guardar_datos with False
GuardarFila(st, n, ahora) ==
    LET factura == st.lista[n]
    IN  IF "id" \in DOMAIN factura /\ factura.id \in st.actuales
        THEN [st EXCEPT
                !.db = ActualizarTx(@, factura.id, factura.fecha, factura.tipo,
                                    factura.descripcion, factura.valor, ahora).db,
                !.actuales = @ \ {factura.id}]
        ELSE LET tx == AgregarTx(st.db, factura.fecha, factura.tipo,
                                 factura.descripcion, factura.valor, ahora)
             IN  IF tx.excepcion THEN [st EXCEPT !.ok = FALSE]
                 ELSE [st EXCEPT !.db = tx.db,
                                 !.lista[n] = ConId(factura, tx.id)]

\* the loop over self.facturas[1..n]
RECURSIVE GuardarFilas(_, _, _)
GuardarFilas(st, n, ahora) ==
    IF n = 0 THEN st
    ELSE LET antes == GuardarFilas(st, n - 1, ahora)
         IN  IF ~antes.ok THEN antes ELSE GuardarFila(antes, n, ahora)

\* eliminar_factura for each of the ids
RECURSIVE EliminarTodas(_, _)
EliminarTodas(db, ids) ==
    IF ids = {} THEN db
    ELSE LET factura_id == CHOOSE x \in ids : TRUE
         IN  EliminarTodas(EliminarTx(db, factura_id).db, ids \ {factura_id})

\* guardar_datos without its last loop
GuardarDatosSinEliminar(db, lista, ahora) ==
    LET st == GuardarFilas([ok |-> TRUE, db |-> db, lista |-> lista,
                            actuales |-> {f.id : f \in FilasFacturas(db, <<>>, <<>>)}],
                           Len(lista), ahora)
    IN  [ok |-> st.ok, db |-> st.db, lista |-> st.lista]

\* guardar_datos: facturas_actuales are the ids obtener_facturas() shows;
\* the loop over self.facturas; then the ids left in facturas_actuales are
\* deleted and the answer is True
GuardarDatos(db, lista, ahora) ==
    LET st == GuardarFilas([ok |-> TRUE, db |-> db, lista |-> lista,
                            actuales |-> {f.id : f \in FilasFacturas(db, <<>>, <<>>)}],
                           Len(lista), ahora)
    IN  IF ~st.ok THEN [ok |-> FALSE, db |-> st.db, lista |-> st.lista]
        ELSE [ok |-> TRUE, db |-> EliminarTodas(st.db, st.actuales),
              lista |-> st.lista]

\* what the form gives guardar_factura: date().toString("dd/MM/yyyy"), the
\* category chosen, the description and the amount
Formularios ==
    {[fecha |-> F_05_03_2024, tipo |-> N_Otros, descripcion |-> "pan", valor |-> 1000],
     [fecha |-> F_05_03_2024, tipo |-> N_Test, descripcion |-> "luz", valor |-> 2000]}

\* datetime.now() is read when the date of some entry does not parse
RelojLeidoLista(lista) ==
    IF \E i \in 1..Len(lista) : ~Strptime_dmy(lista[i].fecha).ok
    THEN Ahoras ELSE {NoFecha}

\* datetime.now() at startup: read by an import of a file with a bad date
RelojLeidoLegado(leg) ==
    IF leg.json_path = NULL THEN {NoFecha} ELSE RelojLeidoJson(leg.json_path[1])

\* the ids shown in tabla_facturas
IdsEnTabla == {self_facturas[i].id : i \in 1..Len(self_facturas)}

\* the application has not been started: no store file yet, and the legacy
\* file there or not
InitApp ==
    /\ tipos_gasto = EmptyDb.tipos_gasto
    /\ facturas = EmptyDb.facturas
    /\ sqlite_sequence = EmptyDb.sqlite_sequence
    /\ ult = Llamada("ninguna", SinArgs, NoFecha, SinRet, FALSE)
    /\ legado \in {[json_path |-> j, backup_path |-> NULL] :
                     j \in {NULL} \cup {Some(a) : a \in Archivos}}
    /\ self_facturas = <<>>
    /\ llamador = [c \in Llamadores |-> EnReposo]
    /\ transaccion = SinTransaccion

\* MainWindow.__init__: Database(db_path), _migrar_datos_desde_json, then
\* cargar_datos fills self.facturas from obtener_facturas()
MainWindow_init ==
    /\ UNCHANGED <<llamador, transaccion>>
    /\ \E ahora \in RelojLeidoLegado(legado) :
         \E m \in {MigrarDatosDesdeJson(create_tables(Db), legado, ahora)} :
           /\ m.db.sqlite_sequence.facturas <= MaxFacturas
           /\ Commit(m.db)
           /\ legado' = m.legado
           /\ self_facturas' \in obtener_facturas(m.db, <<>>, <<>>)
           /\ ult' = [Llamada("MainWindow_init", SinArgs, ahora,
                              [SinRet EXCEPT !.ok = m.invocado, !.n = m.count],
                              m.excepcion)
                        EXCEPT !.archivo = IF m.invocado THEN legado.json_path[1]
                                           ELSE SinArchivo]

\* guardar_factura: the entry of the form is appended to self.facturas and
\* guardar_datos called
guardar_factura ==
    /\ UNCHANGED <<legado, llamador, transaccion>>
    /\ ult.op # "ninguna"
    /\ sqlite_sequence.facturas < MaxFacturas
    /\ \E e \in Formularios :
         \E ahora \in RelojLeidoLista(Append(self_facturas, e)) :
           \E r \in {GuardarDatos(Db, Append(self_facturas, e), ahora)} :
             /\ Commit(r.db)
             /\ self_facturas' = r.lista
             /\ ult' = Llamada("guardar_factura", Args(0, e), ahora,
                               [SinRet EXCEPT !.ok = r.ok], FALSE)

\* limpiar_todo: self.facturas.clear() and guardar_datos
limpiar_todo ==
    /\ UNCHANGED <<legado, llamador, transaccion>>
    /\ ult.op # "ninguna"
    /\ \E r \in {GuardarDatos(Db, <<>>, NoFecha)} :
         /\ Commit(r.db)
         /\ self_facturas' = r.lista
         /\ ult' = Llamada("limpiar_todo", SinArgs, NoFecha,
                           [SinRet EXCEPT !.ok = r.ok], FALSE)

\* eliminar_facturas_seleccionadas: eliminar_factura for the id of every
\* selected row, then cargar_datos
eliminar_facturas_seleccionadas ==
    /\ UNCHANGED <<legado, llamador, transaccion>>
    /\ ult.op # "ninguna"
    /\ \E facturas_a_eliminar \in SUBSET IdsEnTabla \ {{}} :
         \E db \in {EliminarTodas(Db, facturas_a_eliminar)} :
           /\ Commit(db)
           /\ self_facturas' \in obtener_facturas(db, <<>>, <<>>)
           /\ ult' = Llamada("eliminar_facturas_seleccionadas", SinArgs, NoFecha,
                             [SinRet EXCEPT !.n = Cardinality(facturas_a_eliminar)],
                             FALSE)

NextApp ==
    \/ MainWindow_init
    \/ guardar_factura
    \/ limpiar_todo
    \/ eliminar_facturas_seleccionadas

\* the application, started and used again and again
SpecApp == InitApp /\ [][NextApp]_vars

----------------------------------------------------------------------------
(* Vocabulary of the properties *)

\* the lists obtener_facturas() may return, and the list obtener_tipos_gasto()
\* returns, in the current state
Listado == obtener_facturas(Db, <<>>, <<>>)

Categorias == obtener_tipos_gasto(Db)

\* the same of the store a step leaves
DbTras == [tipos_gasto |-> tipos_gasto', facturas |-> facturas',
           sqlite_sequence |-> sqlite_sequence']

ListadoTras == obtener_facturas(DbTras, <<>>, <<>>)

CategoriasTras == obtener_tipos_gasto(DbTras)

Rango(q) == {q[i] : i \in 1..Len(q)}

\* a text of the form DD/MM/YYYY
EsDDMMYYYY(s) ==
    /\ Len(s) = 10
    /\ s[3] = 47 /\ s[6] = 47
    /\ \A i \in {1, 2, 4, 5, 7, 8, 9, 10} : s[i] \in 48..57

\* a and b are the same text up to the case of the letters A-Z
IgualSinMayusculas(a, b) ==
    /\ Len(a) = Len(b)
    /\ \A i \in 1..Len(a) :
         \/ a[i] = b[i]
         \/ a[i] \in 65..90 /\ a[i] + 32 = b[i]
         \/ b[i] \in 65..90 /\ b[i] + 32 = a[i]

\* the name is 'coche' or 'coches' in some mix of cases
EsCoche(nombre) ==
    IgualSinMayusculas(nombre, N_coche) \/ IgualSinMayusculas(nombre, N_coches)

\* a comes before b byte by byte
MenorBytes(a, b) ==
    \E k \in 1..Len(b) :
      /\ \A i \in 1..(k - 1) : i <= Len(a) /\ a[i] = b[i]
      /\ k > Len(a) \/ a[k] < b[k]

\* the places of list L that hold the given id
FilasDe(L, id) == {i \in 1..Len(L) : L[i].id = id}

----------------------------------------------------------------------------
(* Properties *)

\* C1: after agregar_factura(d, c, s, a) with a valid day/month/year date d
\* returned an id, every list obtener_facturas() may return holds exactly
\* one record with that id, whose fecha is d written DD/MM/YYYY and whose
\* tipo, descripcion and valor are c, s and a.
C1_AgregarSeLista ==
    (ult.op = "agregar_factura" /\ ~ult.excepcion /\ Strptime_dmy(ult.arg.fecha).ok)
    => \A L \in Listado :
         /\ Cardinality(FilasDe(L, ult.ret.id)) = 1
         /\ \A i \in FilasDe(L, ult.ret.id) :
              /\ EsDDMMYYYY(L[i].fecha)
              /\ Strptime_dmy(L[i].fecha) = Strptime_dmy(ult.arg.fecha)
              /\ L[i].tipo = ult.arg.tipo
              /\ L[i].descripcion = ult.arg.descripcion
              /\ L[i].valor = ult.arg.valor

\* a second record was added with the date '7/1/2025', which is not zero padded
C1_Witness ==
    /\ ult.op = "agregar_factura" /\ ~ult.excepcion
    /\ ult.arg.fecha = F_7_1_2025
    /\ ult.ret.id = 2
    /\ Cardinality(facturas) = 2

\* the step is agregar_factura with a category name no stored category has
AgregaConNombreNuevo ==
    /\ ult'.op = "agregar_factura" /\ ~ult'.excepcion
    /\ \A r \in tipos_gasto : r.nombre # ult'.arg.tipo

\* what C2 says of the categories listed before and after such a step:
\* one is new, it has the given name and no descripcion or color, and the
\* ones listed before are listed unchanged
UnaCategoriaNueva(antes, despues, nombre) ==
    /\ Cardinality(despues \ antes) = 1
    /\ \A r \in despues \ antes :
         r.nombre = nombre /\ r.descripcion = NULL /\ r.color = NULL
    /\ antes \subseteq despues

\* C2 as stated: agregar_factura with a name that is not yet stored makes
\* obtener_tipos_gasto() show exactly one new category, with that name and
\* null descripcion and color, beside every category it listed before.
C2_Original ==
    [][AgregaConNombreNuevo =>
         \A antes \in {Rango(Categorias)}, despues \in {Rango(CategoriasTras)} :
           UnaCategoriaNueva(antes, despues, ult'.arg.tipo)]_vars

\* C2 amended: the same for every name that is not 'coche' or 'coches' in
\* any mix of cases; for such a name the category is stored, with null
\* descripcion and color, and obtener_tipos_gasto() lists what it listed
\* before.
C2_CategoriaNuevaListada ==
    [][AgregaConNombreNuevo =>
         /\ \E r \in tipos_gasto' \ tipos_gasto :
              /\ r.nombre = ult'.arg.tipo /\ r.descripcion = NULL /\ r.color = NULL
              /\ tipos_gasto' = tipos_gasto \cup {r}
         /\ \A antes \in {Rango(Categorias)}, despues \in {Rango(CategoriasTras)} :
              IF EsCoche(ult'.arg.tipo) THEN despues = antes
              ELSE UnaCategoriaNueva(antes, despues, ult'.arg.tipo)]_vars

\* the first record was added under the new name 'Test'
C2_Witness ==
    /\ ult.op = "agregar_factura" /\ ~ult.excepcion
    /\ ult.arg.tipo = N_Test
    /\ ult.ret.id = 1
    /\ \E r \in Rango(Categorias) :
         r.nombre = N_Test /\ r.id = Len(default_tipos) + 1 /\ r.descripcion = NULL

\* C3: every stored record's tipo_id is the id of a stored category, and so
\* every list obtener_facturas() may return shows every stored record.
C3_SinHuerfanas ==
    /\ \A f \in facturas : \E t \in tipos_gasto : t.id = f.tipo_id
    /\ \A L \in Listado : {r.id : r \in Rango(L)} = {f.id : f \in facturas}

\* records reference two categories created on the fly, the last one by an
\* import
C3_Witness ==
    /\ ult.op = "migrar_desde_json" /\ ult.ret.n = 1
    /\ \E f, g \in facturas :
         /\ f.id # g.id
         /\ f.tipo_id > Len(default_tipos) /\ g.tipo_id > Len(default_tipos)
         /\ f.tipo_id # g.tipo_id

\* C4: no two stored categories have the same name.
C4_NombreUnico ==
    \A r, q \in tipos_gasto : r.nombre = q.nombre => r.id = q.id

\* two records were written under the same new name, after a restart
C4_Witness ==
    /\ Cardinality(tipos_gasto) = Len(default_tipos) + 1
    /\ \E f, g \in facturas :
         /\ f.id # g.id /\ f.tipo_id = g.tipo_id
         /\ f.tipo_id > Len(default_tipos)
    /\ ult.op = "init"

\* the step is actualizar_factura; Existia: a record has the given id
Actualiza == ult'.op = "actualizar_factura"

Existia == \E f \in facturas : f.id = ult'.arg.factura_id

\* the records with another id are listed after the step (in the lists MS)
\* as they were before it (in the lists LS)
LasDemasIgual(LS, MS, id) ==
    \A L \in LS, M \in MS :
      {r \in Rango(L) : r.id # id} = {r \in Rango(M) : r.id # id}

\* the list M shows the call's id once, with the call's tipo, descripcion
\* and valor
FilaDada(M, arg) ==
    /\ Cardinality(FilasDe(M, arg.factura_id)) = 1
    /\ \A i \in FilasDe(M, arg.factura_id) :
         /\ M[i].tipo = arg.tipo
         /\ M[i].descripcion = arg.descripcion
         /\ M[i].valor = arg.valor

\* the text x is the date d, written DD/MM/YYYY
EsLaFecha(x, d) ==
    /\ Strptime_dmy(d).ok
    /\ EsDDMMYYYY(x)
    /\ Strptime_dmy(x) = Strptime_dmy(d)

\* the text x is the date d if d is a day/month/year date, and the date
\* ahora if it is not
EsLaFechaOLaActual(x, d, ahora) ==
    /\ EsDDMMYYYY(x)
    /\ Strptime_dmy(x) = IF Strptime_dmy(d).ok THEN Strptime_dmy(d) ELSE ahora

\* C5 as stated: actualizar_factura(id, d, c, s, a) returns true iff a
\* record with that id exists; when it returns true obtener_facturas() shows
\* that id with date d, category c, description s and amount a, and every
\* other record unchanged.
C5_Original ==
    [][Actualiza =>
         /\ ult'.ret.ok <=> Existia
         /\ ult'.ret.ok =>
              \A LS \in {Listado}, MS \in {ListadoTras} :
                /\ \A M \in MS :
                     /\ FilaDada(M, ult'.arg)
                     /\ \A i \in FilasDe(M, ult'.arg.factura_id) :
                          EsLaFecha(M[i].fecha, ult'.arg.fecha)
                /\ LasDemasIgual(LS, MS, ult'.arg.factura_id)]_vars

\* C5 amended: the same, where the date shown is d for a valid
\* day/month/year date d and the current date for a d that does not parse.
C5_ActualizarReescribe ==
    [][Actualiza =>
         /\ ult'.ret.ok <=> Existia
         /\ ult'.ret.ok =>
              \A LS \in {Listado}, MS \in {ListadoTras} :
                /\ \A M \in MS :
                     /\ FilaDada(M, ult'.arg)
                     /\ \A i \in FilasDe(M, ult'.arg.factura_id) :
                          EsLaFechaOLaActual(M[i].fecha, ult'.arg.fecha, ult'.ahora)
                /\ LasDemasIgual(LS, MS, ult'.arg.factura_id)]_vars

\* one of two records was updated to a new category and a date that does
\* not parse
C5_Witness ==
    /\ ult.op = "actualizar_factura" /\ ult.ret.ok
    /\ ult.arg.fecha = F_31_02_2024
    /\ Cardinality(facturas) = 2
    /\ \E f \in facturas :
         f.id = ult.arg.factura_id /\ f.tipo_id > Len(default_tipos)

\* C6: actualizar_factura with an id no stored record has returns false,
\* raises nothing, and obtener_facturas() may return the same lists after
\* the call as before it.
C6_ActualizarInexistente ==
    [][(Actualiza /\ ~Existia) =>
         /\ ~ult'.ret.ok /\ ~ult'.excepcion
         /\ ListadoTras = Listado]_vars

\* an update of an id that is not stored, with a category name that is new,
\* while a record is stored
C6_Witness ==
    /\ ult.op = "actualizar_factura" /\ ~ult.ret.ok
    /\ facturas # {}
    /\ \A f \in facturas : f.id # ult.arg.factura_id
    /\ ult.arg.tipo = N_Test
    /\ \A f \in facturas : \A t \in tipos_gasto : t.id = f.tipo_id => t.nombre # N_Test

\* C7: eliminar_factura(id) on a stored id returns true and no list
\* obtener_facturas() may return holds that id afterwards; a call with the
\* same id right after one that returned true returns false.
C7_EliminarQuita ==
    [][ult'.op = "eliminar_factura" =>
         /\ Existia => /\ ult'.ret.ok
                       /\ \A M \in ListadoTras : FilasDe(M, ult'.arg.factura_id) = {}
         /\ (/\ ult.op = "eliminar_factura" /\ ult.ret.ok
             /\ ult.arg.factura_id = ult'.arg.factura_id) => ~ult'.ret.ok]_vars

\* eliminar_factura answered false for an id that was handed out before,
\* and another record is still stored
C7_Witness ==
    /\ ult.op = "eliminar_factura" /\ ~ult.ret.ok
    /\ ult.arg.factura_id \in 1..sqlite_sequence.facturas
    /\ \A f \in facturas : f.id # ult.arg.factura_id
    /\ facturas # {}

\* C8: obtener_tipos_gasto() returns exactly the stored categories whose
\* name is not 'coche' or 'coches' in any mix of cases, each once, in
\* ascending order of the name.
C8_ListaSinCoche ==
    \A C \in {Categorias} :
      /\ Rango(C) = {r \in tipos_gasto : ~EsCoche(r.nombre)}
      /\ Len(C) = Cardinality(Rango(C))
      /\ \A i \in 1..(Len(C) - 1) : MenorBytes(C[i].nombre, C[i + 1].nombre)

\* 'Coche', 'coches' and 'Test' are all stored
C8_Witness ==
    /\ \E r \in tipos_gasto : r.nombre = N_Coche
    /\ \E r \in tipos_gasto : r.nombre = N_coches
    /\ \E r \in tipos_gasto : r.nombre = N_Test

\* C9: when a category named 'coche' or 'coches' is stored, agregar_factura
\* with that exact name succeeds, adds no category row, gives the new record
\* the id of that category, and the record is listed with that tipo.
C9_CocheSeResuelve ==
    [][(/\ ult'.op = "agregar_factura"
        /\ ult'.arg.tipo \in {N_coche, N_coches}
        /\ \E r \in tipos_gasto : r.nombre = ult'.arg.tipo) =>
         /\ ~ult'.excepcion
         /\ tipos_gasto' = tipos_gasto
         /\ \E f \in facturas' \ facturas :
              /\ f.id = ult'.ret.id
              /\ \E r \in tipos_gasto : r.nombre = ult'.arg.tipo /\ r.id = f.tipo_id
         /\ \A M \in ListadoTras :
              \E i \in 1..Len(M) : M[i].id = ult'.ret.id /\ M[i].tipo = ult'.arg.tipo]_vars

\* a second record was added under 'coches'
C9_Witness ==
    /\ ult.op = "agregar_factura" /\ ~ult.excepcion
    /\ ult.arg.tipo = N_coches
    /\ \E f, g \in facturas :
         /\ f.id # g.id /\ g.id = ult.ret.id /\ f.tipo_id = g.tipo_id
         /\ \E r \in tipos_gasto : r.id = g.tipo_id /\ r.nombre = N_coches

\* the names obtener_tipos_gasto() lists
NombresListados == {r.nombre : r \in Rango(Categorias)}

\* C10 as stated: every record obtener_facturas() returns has a tipo that is
\* among the names obtener_tipos_gasto() returns.
C10_Original ==
    \A N \in {NombresListados} :
      \A L \in Listado : \A r \in Rango(L) : r.tipo \in N

\* C10 amended: every record obtener_facturas() returns has a tipo that is
\* among the names obtener_tipos_gasto() returns, or that is 'coche' or
\* 'coches' in some mix of cases.
C10_TipoListadoOCoche ==
    \A N \in {NombresListados} :
      \A L \in Listado : \A r \in Rango(L) : r.tipo \in N \/ EsCoche(r.tipo)

\* a record under 'Coche' and a record under a listed new category
C10_Witness ==
    /\ \E f \in facturas : \E t \in tipos_gasto :
         t.id = f.tipo_id /\ t.nombre = N_Coche
    /\ \E f \in facturas : \E t \in tipos_gasto :
         t.id = f.tipo_id /\ t.nombre = N_Test

----------------------------------------------------------------------------
(* The summaries *)

\* the records of the category tg
FacturasDe(tg) == {f \in facturas : f.tipo_id = tg.id}

\* the rows of the summary by category with no bounds; every list that
\* obtener_resumen_por_tipo() may return is an arrangement of these rows
FilasResumen == GroupByTipo(Db, <<>>, <<>>)

\* the row of R for the category tg has no record to count
FilaSinRegistros(R, tg) ==
    FacturasDe(tg) = {} =>
        \A r \in R : r.tipo = tg.nombre => r.cantidad = 0 /\ r.total = NULL

\* C11 as stated: obtener_resumen_por_tipo() with no bounds has one row for
\* each category obtener_tipos_gasto() lists and no other row, a category
\* without records with cantidad 0 and total null.
C11_Original ==
    \A R \in {FilasResumen}, C \in {Categorias} :
      /\ Cardinality(R) = Len(C)
      /\ \A i \in 1..Len(C) : Cardinality({r \in R : r.tipo = C[i].nombre}) = 1
      /\ \A r \in R : \E i \in 1..Len(C) : r.tipo = C[i].nombre
      /\ \A tg \in tipos_gasto : FilaSinRegistros(R, tg)

\* C11 (amended): obtener_resumen_por_tipo() with no bounds has exactly one
\* row for each stored category, the categories 'coche'/'coches' that
\* obtener_tipos_gasto() hides included, and no other row; a category
\* without records has cantidad 0 and total null.
C11_UnaFilaPorCategoria ==
    \A R \in {FilasResumen} :
      /\ Cardinality(R) = Cardinality(tipos_gasto)
      /\ \A tg \in tipos_gasto :
           /\ Cardinality({r \in R : r.tipo = tg.nombre /\ r.color = tg.color}) = 1
           /\ FilaSinRegistros(R, tg)
      /\ \A r \in R : \E tg \in tipos_gasto : r.tipo = tg.nombre

\* a hidden category is stored, with a record, besides categories without
C11_Witness ==
    /\ \E tg \in tipos_gasto : EsCoche(tg.nombre) /\ FacturasDe(tg) # {}
    /\ \E r \in FilasResumen : EsCoche(r.tipo) /\ r.cantidad = 1
    /\ \E r \in FilasResumen : r.cantidad = 0 /\ r.total = NULL

\* the records of tg dated within the bounds, as calendar dates
EnRango(f, fecha_inicio, fecha_fin) ==
    LET d == Strptime_ymd(f.fecha)
        a == Strptime_ymd(fecha_inicio)
        b == Strptime_ymd(fecha_fin)
    IN  /\ <<a.y, a.m, a.d>> = <<d.y, d.m, d.d>> \/ LexLess(<<a.y, a.m, a.d>>, <<d.y, d.m, d.d>>)
        /\ <<d.y, d.m, d.d>> = <<b.y, b.m, b.d>> \/ LexLess(<<d.y, d.m, d.d>>, <<b.y, b.m, b.d>>)

\* C12 as stated: obtener_resumen_por_tipo(fecha_inicio, fecha_fin) with
\* both bounds has a row for every stored category, and a category with no
\* record inside the range has cantidad 0.
C12_Original ==
    \A fecha_inicio \in FechasLimite, fecha_fin \in FechasLimite :
      \A L \in obtener_resumen_por_tipo(Db, fecha_inicio, fecha_fin) :
        \A tg \in tipos_gasto :
          \E i \in 1..Len(L) :
            /\ L[i].tipo = tg.nombre
            /\ (\A f \in FacturasDe(tg) : ~EnRango(f, fecha_inicio, fecha_fin))
                 => L[i].cantidad = 0

\* C13: in every reachable state, for every category, the row of
\* obtener_resumen_por_tipo() with no bounds has cantidad equal to the
\* number of stored records of the category and total equal to the sum of
\* their amounts (null when there is none).
C13_CantidadYTotal ==
    \A R \in {FilasResumen} :
      \A tg \in tipos_gasto :
        \E r \in R :
          /\ r.tipo = tg.nombre
          /\ r.cantidad = Cardinality(FacturasDe(tg))
          /\ r.total = IF FacturasDe(tg) = {} THEN NULL
                       ELSE Some(SumValor(FacturasDe(tg)))

\* two records under one new category
C13_Witness ==
    \E r \in FilasResumen :
      r.tipo = N_Test /\ r.cantidad = 2 /\ r.total # NULL /\ r.total[1] >= 3000

\* the text YYYY-MM of a month
MesTexto(y, m) == Pad(y, 4) \o <<45>> \o Pad(m, 2)

\* the stored records, each with its date as a calendar date
FacturasFechadas == {[f |-> f, t |-> Strptime_ymd(f.fecha)] : f \in facturas}

\* the records of P dated in month m of year y
FacturasDelMes(P, y, m) == {p.f : p \in {x \in P : x.t.y = y /\ x.t.m = m}}

\* the list q is the monthly summary of year y for the dated records P
EsResumenDelAnio(q, y, P) ==
    /\ \A i, j \in 1..Len(q) : i < j => LexLess(q[i].mes, q[j].mes)
    /\ \A i \in 1..Len(q) : \E m \in 1..12 : q[i].mes = MesTexto(y, m)
    /\ \A m \in 1..12 :
         \A F \in {FacturasDelMes(P, y, m)} :
           \A filas \in {{i \in 1..Len(q) : q[i].mes = MesTexto(y, m)}} :
             IF F = {} THEN filas = {}
             ELSE /\ Cardinality(filas) = 1
                  /\ \A i \in filas : q[i].total = SumValor(F)

\* C14: obtener_resumen_mensual(Y) returns, in ascending year-month order,
\* exactly one row for each month of year Y that has a stored record, with
\* the sum of the amounts of the records dated in that month; records of
\* other years add nothing and months without records are absent (Y omitted
\* is the current year).
C14_ResumenMensual ==
    \A P \in {FacturasFechadas} :
      \A anio \in Anios :
        \A ahora \in (IF anio = NULL THEN Ahoras ELSE {NoFecha}) :
          EsResumenDelAnio(obtener_resumen_mensual(Db, anio, ahora),
                           IF anio = NULL THEN ahora.y ELSE anio[1], P)

\* records in two months of 2025, none in 2026
C14_Witness ==
    /\ Len(obtener_resumen_mensual(Db, Some(2025), NoFecha)) = 2
    /\ Len(obtener_resumen_mensual(Db, Some(2026), NoFecha)) = 0

----------------------------------------------------------------------------
(* Initialisation *)

\* the 14 default categories as a fresh store holds them
CategoriasPorDefecto ==
    {[id |-> i, nombre |-> default_tipos[i][1],
      descripcion |-> Some(default_tipos[i][2]),
      color |-> Some(default_tipos[i][3])] : i \in 1..Len(default_tipos)}

\* C15: a fresh store holds exactly the 14 default categories and no
\* record; initialising again on the same location leaves the categories
\* (ids, names, descriptions, colours) and the records as they were.
C15_InicializarIdempotente ==
    /\ (tipos_gasto = CategoriasPorDefecto
          /\ Cardinality(tipos_gasto) = 14 /\ facturas = {})
    /\ [][ult'.op = "init" =>
            /\ tipos_gasto' = tipos_gasto
            /\ facturas' = facturas
            /\ sqlite_sequence' = sqlite_sequence]_vars

\* the store was initialised again with records and new categories in it
C15_Witness ==
    /\ ult.op = "init"
    /\ facturas # {}
    /\ Cardinality(tipos_gasto) > 14
    /\ CategoriasPorDefecto \subseteq tipos_gasto

----------------------------------------------------------------------------
(* The listing with bounds *)

\* the ids of the records of list L
IdsDe(L) == {L[i].id : i \in 1..Len(L)}

\* a comes before b in the calendar
FechaAnterior(a, b) == LexLess(<<a.y, a.m, a.d>>, <<b.y, b.m, b.d>>)

\* C16: obtener_facturas(fecha_inicio, fecha_fin) returns exactly the stored
\* records dated from fecha_inicio to fecha_fin, both included, when both
\* bounds are given as dates, and every stored record when a bound (or
\* both) is omitted.
C16_FiltroPorFechas ==
    \A fecha_inicio \in Limites, fecha_fin \in Limites :
      \A esperadas \in {IF fecha_inicio # <<>> /\ fecha_fin # <<>>
                       THEN {f.id : f \in {x \in facturas :
                                             EnRango(x, fecha_inicio, fecha_fin)}}
                       ELSE {f.id : f \in facturas}} :
        \A L \in obtener_facturas(Db, fecha_inicio, fecha_fin) :
          /\ IdsDe(L) = esperadas
          /\ Len(L) = Cardinality(esperadas)

\* two records are stored; the range 2024-03-05..2024-12-31 keeps one, the
\* first bound alone keeps both
C16_Witness ==
    /\ Cardinality(facturas) = 2
    /\ \E L \in obtener_facturas(Db, L_2024_03_05, L_2024_12_31) : Len(L) = 1
    /\ \E L \in obtener_facturas(Db, L_2025_01_07, <<>>) : Len(L) = 2

\* C17: in every list obtener_facturas() may return, with or without
\* bounds, a record with a later calendar date never comes after a record
\* with an earlier one.
C17_OrdenFechaDesc ==
    \A fecha_inicio \in Limites, fecha_fin \in Limites :
      \A L \in obtener_facturas(Db, fecha_inicio, fecha_fin) :
        \A i, j \in 1..Len(L) :
          i < j => ~FechaAnterior(Strptime_dmy(L[i].fecha), Strptime_dmy(L[j].fecha))

\* the listing holds two records of different dates, the older one of them
\* inserted last
C17_Witness ==
    \E L \in Listado :
      /\ Len(L) = 2
      /\ FechaAnterior(Strptime_dmy(L[2].fecha), Strptime_dmy(L[1].fecha))
      /\ L[1].id < L[2].id

----------------------------------------------------------------------------
(* Dates that do not parse *)

\* the ids of the stored records
IdsGuardados == {f.id : f \in facturas}

\* the store the step leaves holds the record id with the date of ahora
FechaActualTras(id, ahora) ==
    \E f \in facturas' : f.id = id /\ f.fecha = Strftime_ymd(ahora)

\* an entry of a legacy file whose date is missing or does not parse
SinFechaValida(factura) ==
    factura.fecha = NULL \/ ~Strptime_dmy(factura.fecha[1]).ok

\* a legacy file that can be read and whose entries have a category and a
\* numeric amount
ArchivoImportable(archivo) ==
    /\ archivo.legible
    /\ \A i \in 1..Len(archivo.facturas) :
         /\ archivo.facturas[i].tipo # NULL
         /\ archivo.facturas[i].valor # NULL
         /\ FloatDeTexto(archivo.facturas[i].valor[1]).ok

----------------------------------------------------------------------------
(* Store faults *)

\* the step is a call of actualizar_factura or eliminar_factura
ActualizaOElimina == ult'.op \in {"actualizar_factura", "eliminar_factura"}

\* C19 as stated: a store fault during actualizar_factura or
\* eliminar_factura is propagated to the caller, and false is returned only
\* when no record has the given id.
C19_Original ==
    [][ActualizaOElimina =>
         /\ ult'.falla => ult'.excepcion
         /\ (~ult'.excepcion /\ ~ult'.ret.ok)
              => ult'.arg.factura_id \notin IdsGuardados]_vars

\* C19 (amended): a store fault during actualizar_factura or
\* eliminar_factura is not propagated: the call returns false, as it does
\* when no record has the given id; false means one or the other.
C19_FallaDevuelveFalse ==
    [][ActualizaOElimina =>
         /\ ~ult'.excepcion
         /\ ult'.falla => ~ult'.ret.ok
         /\ ~ult'.ret.ok
              => ult'.falla \/ ult'.arg.factura_id \notin IdsGuardados]_vars

\* the store faulted while a stored record was being updated
C19_Witness ==
    /\ ult.op = "actualizar_factura"
    /\ ult.falla
    /\ ult.arg.factura_id \in IdsGuardados
    /\ ~ult.ret.ok
    /\ ~ult.excepcion

----------------------------------------------------------------------------
(* The import *)

\* the category names of the entries of a legacy file
NombresDe(archivo) ==
    {archivo.facturas[i].tipo[1] : i \in 1..Len(archivo.facturas)}

\* C20: a migrar_desde_json that succeeds on a file of n entries returns n
\* and inserts n records, one per entry, each under the category of exactly
\* the entry's name: the stored one if there was one, else one created
\* once for all the entries of that name; the records stored before and the
\* categories stored before are unchanged.
C20_ImportarTodo ==
    [][(ult'.op = "migrar_desde_json" /\ ~ult'.excepcion) =>
         \A A \in {ult'.archivo} :
           /\ ult'.ret.n = Len(A.facturas)
           /\ facturas \subseteq facturas'
           /\ Cardinality(facturas') = Cardinality(facturas) + Len(A.facturas)
           /\ tipos_gasto \subseteq tipos_gasto'
           /\ \A i \in 1..Len(A.facturas) :
                \E f \in facturas' \ facturas :
                  /\ f.id = sqlite_sequence.facturas + i
                  /\ \E tg \in tipos_gasto' :
                       tg.id = f.tipo_id /\ tg.nombre = A.facturas[i].tipo[1]
           /\ \A tg \in tipos_gasto' \ tipos_gasto : tg.nombre \in NombresDe(A)
           /\ \A nombre \in NombresDe(A) :
                Cardinality({tg \in tipos_gasto' : tg.nombre = nombre}) = 1
      ]_vars

\* two entries of one new name were imported and share the category
\* created
C20_Witness ==
    /\ ult.op = "migrar_desde_json"
    /\ ~ult.excepcion
    /\ ult.ret.n = 2
    /\ \A i \in 1..2 : ult.archivo.facturas[i].tipo = Some(N_Test)
    /\ Cardinality(tipos_gasto) = 15
    /\ Cardinality({f \in facturas : \E tg \in tipos_gasto :
                       tg.nombre = N_Test /\ tg.id = f.tipo_id}) = 2

----------------------------------------------------------------------------
(* Atomicity and frame of the writes *)

\* the step leaves the three tables as they were
AlmacenIgual ==
    /\ tipos_gasto' = tipos_gasto
    /\ facturas' = facturas
    /\ sqlite_sequence' = sqlite_sequence

\* C21: migrar_desde_json raises on a file that cannot be read and on an
\* entry without 'tipo' or 'valor' or with a 'valor' that is no number, and
\* when it raises the store is exactly as before the call: nothing created
\* for the earlier entries of the file is committed.
C21_ImportacionAtomica ==
    [][ult'.op = "migrar_desde_json" =>
         /\ ~ArchivoImportable(ult'.archivo) => ult'.excepcion
         /\ ult'.excepcion => AlmacenIgual]_vars

\* the import of a file whose first entry creates the category 'Test' and
\* whose second entry has no usable 'valor' raised
C21_Witness ==
    /\ ult.op = "migrar_desde_json"
    /\ ult.excepcion
    /\ Len(ult.archivo.facturas) = 2
    /\ ult.archivo.facturas[1].tipo = Some(N_Test)
    /\ ult.archivo.facturas[1].valor = Some(V_1500)
    /\ ult.archivo.facturas[2].valor \in {NULL, Some(V_abc)}
    /\ \A tg \in tipos_gasto : tg.nombre # N_Test
    /\ facturas = {}

\* C24: categories are never deleted and keep their id: every (id, nombre)
\* of tipos_gasto before a step of initialize, agregar_factura,
\* actualizar_factura, eliminar_factura or migrar_desde_json is in
\* tipos_gasto after it.
C24_CategoriasPermanecen ==
    [][\A tg \in tipos_gasto :
         \E tr \in tipos_gasto' : tr.id = tg.id /\ tr.nombre = tg.nombre]_vars

\* the store was initialised again after the only record of a new category
\* had been deleted, and the category is there
C24_Witness ==
    /\ ult.op = "init"
    /\ facturas = {}
    /\ sqlite_sequence.facturas > 0
    /\ \E tg \in tipos_gasto : tg.id = 15

\* C27: eliminar_factura(id) removes the record of that id and nothing
\* else: the other records and the categories, listed ones included, stay
\* as they were; a call that returns false leaves the whole store unchanged.
C27_EliminarSoloEsa ==
    [][ult'.op = "eliminar_factura" =>
         /\ facturas' = {f \in facturas : f.id # ult'.arg.factura_id}
         /\ tipos_gasto' = tipos_gasto
         /\ CategoriasTras = Categorias
         /\ ~ult'.ret.ok => AlmacenIgual]_vars

\* the last record of the listed category 'Test' was deleted while another
\* record stays
C27_Witness ==
    /\ ult.op = "eliminar_factura"
    /\ ult.ret.ok
    /\ Cardinality(facturas) = 1
    /\ \E tg \in tipos_gasto :
         tg.nombre = N_Test /\ \A f \in facturas : f.tipo_id # tg.id
    /\ \E i \in 1..Len(Categorias) : Categorias[i].nombre = N_Test

\* C28 as stated: an actualizar_factura that returns false because the id
\* does not exist leaves the whole store unchanged, the categories too.
C28_Original ==
    [][(/\ ult'.op = "actualizar_factura"
        /\ \A f \in facturas : f.id # ult'.arg.factura_id
        /\ ~ult'.ret.ok) => AlmacenIgual]_vars

\* C29: record ids are never reused.  The AUTOINCREMENT counter of facturas
\* is never below a stored id and never decreases, and the id an
\* agregar_factura returns is above the counter as it was: above every id
\* returned before, whether that record is still stored or not.
C29_IdsNoSeReusan ==
    [][/\ sqlite_sequence'.facturas >= sqlite_sequence.facturas
       /\ \A f \in facturas : f.id <= sqlite_sequence.facturas
       /\ (ult'.op = "agregar_factura" /\ ~ult'.excepcion /\ facturas' # facturas)
            => /\ ult'.ret.id > sqlite_sequence.facturas
               /\ ult'.ret.id <= sqlite_sequence'.facturas
               /\ \E f \in facturas' : f.id = ult'.ret.id]_vars

\* a record was added after the record of the largest id had been deleted
C29_Witness ==
    /\ ult.op = "agregar_factura"
    /\ ult.ret.id = 2
    /\ \A f \in facturas : f.id = 2

\* C26: agregar_factura is atomic: when it raises, also after it has
\* created the category of a name not seen before (the value cannot be
\* converted, the store rejects the record), the store is as before the
\* call: neither the record nor the new category is committed.
C26_AgregarAtomico ==
    [][(ult'.op = "agregar_factura" /\ ult'.excepcion) => AlmacenIgual]_vars

\* an agregar_factura for the new category 'Test' raised at the INSERT of
\* the record, and the store holds no category 'Test'
C26_Witness ==
    /\ ult.op = "agregar_factura"
    /\ ult.excepcion
    /\ ult.falla
    /\ ult.arg.tipo = N_Test
    /\ \A tg \in tipos_gasto : tg.nombre # N_Test

\* C25 as stated: when two callers have run agregar_factura with the same
\* name 'Test', which the store did not hold, both succeeded: neither
\* raised, the store holds exactly one category 'Test', and the record of
\* each references it.
C25_Original ==
    (\A c \in Llamadores : llamador[c].pc = "fin" /\ llamador[c].e.tipo = N_Test)
    => /\ \A c \in Llamadores : llamador[c].excepcion = ""
       /\ Cardinality({tg \in tipos_gasto : tg.nombre = N_Test}) = 1
       /\ \A c \in Llamadores :
            \E f \in facturas, tg \in tipos_gasto :
              /\ f.id = llamador[c].ret
              /\ tg.nombre = N_Test
              /\ f.tipo_id = tg.id

----------------------------------------------------------------------------
(* The application: startup import and guardar_datos *)

\* the step is a startup of the application
Arranca == ult'.op = "MainWindow_init"

\* the startup called migrar_desde_json
ImportadorInvocado == ult'.ret.ok

\* C22: a startup calls the legacy importer if and only if the legacy file
\* exists and obtener_facturas() returns no record; a startup on a store
\* that holds a record leaves the store unchanged and the legacy file in
\* place.
C22_ImportaSiVacio ==
    [][Arranca =>
         /\ ImportadorInvocado <=> (legado.json_path # NULL /\ Listado = {<<>>})
         /\ facturas # {} => (AlmacenIgual /\ legado' = legado)]_vars

\* the application started on a store with a record while the legacy file
\* was there: no import, and the file is still there
C22_Witness ==
    /\ ult.op = "MainWindow_init"
    /\ ~ult.ret.ok
    /\ legado.json_path # NULL
    /\ facturas # {}

Guardada(factura, db) ==
    /\ "id" \in DOMAIN factura
    /\ \E f \in db.facturas, tg \in db.tipos_gasto :
         /\ f.id = factura.id
         /\ Strptime_dmy(factura.fecha).ok
         /\ f.fecha = Strftime_ymd(Strptime_dmy(factura.fecha))
         /\ f.tipo_id = tg.id
         /\ tg.nombre = factura.tipo
         /\ f.descripcion = factura.descripcion
         /\ f.valor = factura.valor

=============================================================================
